---- MODULE Spec2Model ----
(***************************************************************************)
(* A model of the two tool servers of GitHub-Obsidian-MCP.                 *)
(*                                                                         *)
(*   Obsidian_Server.py  the vault tools get_obsidian_note,                *)
(*                       create_obsidian_note and append_obsidian_note     *)
(*                       over a filesystem;                                *)
(*   Github_Server.py    the repository tools get_github_last_merged_pr,   *)
(*                       get_repo_contents and get_file_contents over the  *)
(*                       remote API.                                       *)
(*                                                                         *)
(* The two servers are separate processes that share nothing, so each has  *)
(* a specification of its own (VaultSpec, GithubSpec); Spec runs both.     *)
(* Text is a TLA+ string; the filesystem is a POSIX one (os.linesep is     *)
(* "\n", so writing text stores it unchanged while reading text applies    *)
(* Python's universal-newline translation).                                *)
(***************************************************************************)
EXTENDS Integers, Sequences, FiniteSets, TLC

VARIABLES
    VAULT_PATH_VALUE,   \* os.getenv("VAULT_PATH") at import time
    VAULT_PATH,         \* the module global; bound only when the value is truthy
    fs,                 \* the filesystem: path (sequence of names) -> node
    call,               \* the vault tool invocation that ran last
    ret,                \* how it ended: a returned payload or a raised exception
    fsLog,              \* the filesystem accesses it performed, in order
    fsBefore,           \* the filesystem when it began
    nCalls,             \* vault tool invocations so far
    GITHUB_TOKEN,       \* the GITHUB_TOKEN entry of the process environment
    ghCall,             \* the repository tool invocation that ran last
    apiResponse,        \* what the remote API answers to the metadata request, when asked
    rawResponse,        \* what the raw-content URL answers, when asked
    netLog,             \* the network requests the invocation issued, in order
    ghRet,              \* how it ended: a returned payload or a raised exception
    writers,            \* the append invocations in flight, one per concurrent caller
    nAppends            \* append invocations begun by the concurrent callers

vaultVars == <<VAULT_PATH_VALUE, VAULT_PATH, fs, call, ret, fsLog, fsBefore, nCalls>>
githubVars == <<GITHUB_TOKEN, ghCall, apiResponse, rawResponse, netLog, ghRet>>
writerVars == <<writers, nAppends>>
vars == <<VAULT_PATH_VALUE, VAULT_PATH, fs, call, ret, fsLog, fsBefore, nCalls,
          GITHUB_TOKEN, ghCall, apiResponse, rawResponse, netLog, ghRet,
          writers, nAppends>>

(***************************************************************************)
(* Bounds of the model.                                                    *)
(***************************************************************************)
\* vault tool invocations in one run
MaxCalls == 2

\* closed pull requests in one page of the remote API's answer
MaxPRs == 3

\* entries in one directory listing
MaxEntries == 2

\* how far past the summary limit the longest pull-request body goes
MaxOver == 1

\* callers that append to the vault at the same time
MaxWriters == 2

\* append invocations the concurrent callers begin in one run
MaxAppends == 2

(***************************************************************************)
(* Python values.                                                          *)
(***************************************************************************)
\* os.getenv of a variable the environment does not hold: None
EnvAbsent == [set |-> FALSE, value |-> ""]

EnvValue(s) == [set |-> TRUE, value |-> s]

\* `if x:` on the result of os.getenv: None and "" are both false
Truthy(e) == e.set /\ e.value # ""

\* str.endswith
EndsWith(s, tail) ==
    /\ Len(s) >= Len(tail)
    /\ SubSeq(s, Len(s) - Len(tail) + 1, Len(s)) = tail

\* str.rfind of a one-character string, 1-based, 0 when absent
RECURSIVE RFind(_, _, _)
RFind(s, ch, i) ==
    IF i = 0 THEN 0
    ELSE IF SubSeq(s, i, i) = ch THEN i
    ELSE RFind(s, ch, i - 1)

LowerChar(c) ==
    CASE c = "M" -> "m"
      [] c = "D" -> "d"
      [] c = "X" -> "x"
      [] OTHER -> c

\* str.lower, over the letters the modelled names use
RECURSIVE Lower(_)
Lower(s) ==
    IF s = "" THEN ""
    ELSE LowerChar(SubSeq(s, 1, 1)) \o Lower(SubSeq(s, 2, Len(s)))

(***************************************************************************)
(* pathlib.                                                                *)
(***************************************************************************)
\* The names of a path string from position i on; pathlib drops empty and
\* "." components (so "d/" is d and "a//b" is a/b).
RECURSIVE SplitFrom(_, _, _)
SplitFrom(s, i, cur) ==
    IF i > Len(s)
    THEN IF cur \in {"", "."} THEN <<>> ELSE <<cur>>
    ELSE LET c == SubSeq(s, i, i) IN
         IF c = "/"
         THEN (IF cur \in {"", "."} THEN <<>> ELSE <<cur>>) \o SplitFrom(s, i + 1, "")
         ELSE SplitFrom(s, i + 1, cur \o c)

Parts(s) == SplitFrom(s, 1, "")

\* Path(base) / rel: an absolute rel replaces base
Join(base, rel) ==
    IF Len(rel) > 0 /\ SubSeq(rel, 1, 1) = "/" THEN Parts(rel) ELSE base \o Parts(rel)

\* PurePath.name
Name(p) == IF p = <<>> THEN "" ELSE p[Len(p)]

\* PurePath.parent
Parent(p) == IF p = <<>> THEN <<>> ELSE SubSeq(p, 1, Len(p) - 1)

\* PurePath.suffix: the text from the last dot of the name on, unless that
\* dot is the name's first or last character
Suffix(p) ==
    LET name == Name(p)
        i == RFind(name, ".", Len(name))
    IN  IF 1 < i /\ i < Len(name) THEN SubSeq(name, i, Len(name)) ELSE ""

\* PurePath.relative_to succeeds
IsRelativeTo(p, base) ==
    /\ Len(p) >= Len(base)
    /\ SubSeq(p, 1, Len(base)) = base

(***************************************************************************)
(* The filesystem.  A node is a directory or a regular file with its       *)
(* stored text; a path outside DOMAIN does not exist.  The modelled paths  *)
(* hold no ".." and no symbolic link, so Path.resolve() leaves them as     *)
(* they are.                                                               *)
(***************************************************************************)
DirNode == [kind |-> "dir", data |-> ""]

FileNode(s) == [kind |-> "file", data |-> s]

Exists(f, p) == p = <<>> \/ p \in DOMAIN f

\* Path.is_dir
IsDir(f, p) == p = <<>> \/ (p \in DOMAIN f /\ f[p].kind = "dir")

\* Path.is_file
IsFile(f, p) == p \in DOMAIN f /\ f[p].kind = "file"

Put(f, p, node) == [q \in DOMAIN f \cup {p} |-> IF q = p THEN node ELSE f[q]]

\* the proper prefixes of p and p itself
Ancestors(p) == {SubSeq(p, 1, k) : k \in 1..Len(p)}

\* Path.mkdir(parents=True, exist_ok=True) can succeed: nothing on the way
\* is a regular file
MkdirOk(f, p) == \A q \in Ancestors(p) : ~IsFile(f, q)

\* ... and its effect: every missing directory on the way is created
MkdirParents(f, p) ==
    [q \in DOMAIN f \cup Ancestors(p) |-> IF q \in DOMAIN f THEN f[q] ELSE DirNode]

\* Reading text (newline=None): "\r\n" and a lone "\r" both arrive as "\n"
RECURSIVE UniversalNewlines(_)
UniversalNewlines(s) ==
    IF s = "" THEN ""
    ELSE IF SubSeq(s, 1, 1) = "\r"
    THEN IF Len(s) >= 2 /\ SubSeq(s, 2, 2) = "\n"
         THEN "\n" \o UniversalNewlines(SubSeq(s, 3, Len(s)))
         ELSE "\n" \o UniversalNewlines(SubSeq(s, 2, Len(s)))
    ELSE SubSeq(s, 1, 1) \o UniversalNewlines(SubSeq(s, 2, Len(s)))

\* Path.read_text(encoding="utf-8") of a regular file
ReadText(f, p) == UniversalNewlines(f[p].data)

\* Writing text (newline=None): "\n" becomes os.linesep, which is "\n"
WriteTranslate(s) == s

(***************************************************************************)
(* Obsidian_Server.py: the helpers.  Each yields its value together with   *)
(* the filesystem it leaves and the accesses it made.                      *)
(***************************************************************************)
\* The module global after import: line 14 runs only under line 13's test,
\* so a missing or empty VAULT_PATH leaves the name VAULT_PATH unbound.
VaultGlobal(value) ==
    IF Truthy(value)
    THEN [bound |-> TRUE, parts |-> Parts(value.value)]
    ELSE [bound |-> FALSE, parts |-> <<>>]

\* `not VAULT_PATH` of a bound global: a Path object is always true
NotVaultPath(vault) == FALSE

\* get_path: None without a vault root, else the joined path, canonical
get_path(vault, note_path) ==
    IF NotVaultPath(vault)
    THEN [none |-> TRUE, path |-> <<>>]
    ELSE [none |-> FALSE, path |-> Join(vault.parts, note_path)]

\* read_note, had it compared the extension without regard to letter case
read_note_any_case(f, full_path) ==
    IF Lower(Suffix(full_path)) = ".md" /\ IsFile(f, full_path)
    THEN [none |-> FALSE, content |-> ReadText(f, full_path),
          log |-> <<"is_file", "read_text">>]
    ELSE [none |-> TRUE, content |-> "", log |-> <<"is_file">>]

\* read_note: the decoded text of an existing regular file named *.md
read_note(f, full_path) ==
    IF Suffix(full_path) = ".md"
    THEN IF IsFile(f, full_path)
         THEN [none |-> FALSE, content |-> ReadText(f, full_path),
               log |-> <<"is_file", "read_text">>]
         ELSE [none |-> TRUE, content |-> "", log |-> <<"is_file">>]
    ELSE [none |-> TRUE, content |-> "", log |-> <<>>]

\* append_note, had it written the separating newline without looking at
\* the current text
append_note_always_newline(f, full_path, content_to_append, ensure_newline) ==
    IF ~IsFile(f, full_path) \/ Lower(Suffix(full_path)) # ".md"
    THEN [ok |-> FALSE, fs |-> f, log |-> <<"is_file">>]
    ELSE [ok |-> TRUE,
          fs |-> Put(f, full_path,
                     FileNode(f[full_path].data
                              \o (IF ensure_newline THEN "\n" ELSE "")
                              \o content_to_append)),
          log |-> <<"is_file", "open_append", "write">>]

\* append_note, had it not looked at the extension
append_note_any_suffix(f, full_path, content_to_append, ensure_newline) ==
    IF ~IsFile(f, full_path)
    THEN [ok |-> FALSE, fs |-> f, log |-> <<"is_file">>]
    ELSE LET current_content == ReadText(f, full_path)
             newline == IF ensure_newline /\ current_content # ""
                           /\ ~EndsWith(current_content, "\n")
                        THEN "\n" ELSE ""
         IN  [ok |-> TRUE,
              fs |-> Put(f, full_path,
                         FileNode(f[full_path].data \o newline \o content_to_append)),
              log |-> <<"is_file", "open_append", "read_text", "write">>]

\* append_note: the file is opened for appending, its current text is read
\* back to decide on a separating newline, and both writes land at its end
append_note(f, full_path, content_to_append, ensure_newline) ==
    IF ~IsFile(f, full_path)
    THEN [ok |-> FALSE, fs |-> f, log |-> <<"is_file">>]
    ELSE IF Lower(Suffix(full_path)) # ".md"
    THEN [ok |-> FALSE, fs |-> f, log |-> <<"is_file">>]
    ELSE LET current_content == ReadText(f, full_path)
             newline == IF ensure_newline /\ current_content # ""
                           /\ ~EndsWith(current_content, "\n")
                        THEN "\n" ELSE ""
             written == WriteTranslate(newline \o content_to_append)
         IN  [ok |-> TRUE,
              fs |-> Put(f, full_path, FileNode(f[full_path].data \o written)),
              log |-> <<"is_file", "open_append">>
                      \o (IF ensure_newline THEN <<"read_text">> ELSE <<>>)
                      \o <<"write">>]

\* create_note: ".md" is added to a path string that does not end in it, the
\* parent directories are made, and the text replaces whatever the file held
create_note(vault, f, relative_path, content) ==
    LET rel == IF EndsWith(relative_path, ".md")
               THEN relative_path ELSE relative_path \o ".md"
        full_path == Join(vault.parts, rel)
    IN  IF ~MkdirOk(f, Parent(full_path))
        THEN [none |-> TRUE, path |-> full_path, fs |-> f, log |-> <<"mkdir">>]
        ELSE LET g == MkdirParents(f, Parent(full_path)) IN
             IF IsDir(g, full_path)
             THEN [none |-> TRUE, path |-> full_path, fs |-> g,
                   log |-> <<"mkdir", "write_text">>]
             ELSE [none |-> FALSE, path |-> full_path,
                   fs |-> Put(g, full_path, FileNode(WriteTranslate(content))),
                   log |-> <<"mkdir", "write_text">>]

(***************************************************************************)
(* Obsidian_Server.py: the tools.  A tool ends by returning a JSON payload *)
(* or by raising; reading the unbound global VAULT_PATH raises NameError.  *)
(***************************************************************************)
Payload(shape, path, content) ==
    [kind |-> "return", shape |-> shape, path |-> path, content |-> content]

Raised(exc) == [kind |-> "raise", shape |-> exc, path |-> "", content |-> ""]

\* the payloads that are {"error": ...}
IsErrorPayload(r) ==
    /\ r.kind = "return"
    /\ r.shape \in {"not_configured", "invalid_path", "not_found",
                    "create_failed", "relative_path_failed", "append_failed"}

RECURSIVE PathStr(_)
\* str of an absolute path
PathStr(p) == IF p = <<>> THEN "" ELSE PathStr(Parent(p)) \o "/" \o Name(p)

\* str(path.relative_to(base))
RelativeStr(p, base) ==
    LET rest == SubSeq(p, Len(base) + 1, Len(p))
        s == PathStr(rest)
    IN  IF s = "" THEN "." ELSE SubSeq(s, 2, Len(s))

get_obsidian_note(vault, f, note_path) ==
    IF ~vault.bound
    THEN [ret |-> Raised("NameError"), fs |-> f, log |-> <<>>]
    ELSE IF NotVaultPath(vault)
    THEN [ret |-> Payload("not_configured", "", ""), fs |-> f, log |-> <<>>]
    ELSE LET full_path == get_path(vault, note_path) IN
         IF full_path.none
         THEN [ret |-> Payload("invalid_path", note_path, ""), fs |-> f, log |-> <<>>]
         ELSE LET content == read_note(f, full_path.path) IN
              IF ~content.none
              THEN [ret |-> Payload("note", note_path, content.content),
                    fs |-> f, log |-> content.log]
              ELSE [ret |-> Payload("not_found", note_path, ""),
                    fs |-> f, log |-> content.log]

create_obsidian_note(vault, f, relative_path, content) ==
    IF ~vault.bound
    THEN [ret |-> Raised("NameError"), fs |-> f, log |-> <<>>]
    ELSE IF NotVaultPath(vault)
    THEN [ret |-> Payload("not_configured", "", ""), fs |-> f, log |-> <<>>]
    ELSE LET create_path == create_note(vault, f, relative_path, content) IN
         IF create_path.none
         THEN [ret |-> Payload("create_failed", relative_path, ""),
               fs |-> create_path.fs, log |-> create_path.log]
         ELSE IF IsRelativeTo(create_path.path, vault.parts)
         THEN [ret |-> Payload("created", RelativeStr(create_path.path, vault.parts), ""),
               fs |-> create_path.fs, log |-> create_path.log]
         ELSE [ret |-> Payload("relative_path_failed", PathStr(create_path.path), ""),
               fs |-> create_path.fs, log |-> create_path.log]

append_obsidian_note(vault, f, note_path, content_to_append) ==
    IF ~vault.bound
    THEN [ret |-> Raised("NameError"), fs |-> f, log |-> <<>>]
    ELSE IF NotVaultPath(vault)
    THEN [ret |-> Payload("not_configured", "", ""), fs |-> f, log |-> <<>>]
    ELSE LET full_path_obj == get_path(vault, note_path) IN
         IF full_path_obj.none \/ ~IsFile(f, full_path_obj.path)
         THEN [ret |-> Payload("not_found", note_path, ""), fs |-> f,
               log |-> IF full_path_obj.none THEN <<>> ELSE <<"is_file">>]
         ELSE LET success == append_note(f, full_path_obj.path, content_to_append, TRUE) IN
              IF success.ok
              THEN [ret |-> Payload("appended", note_path, ""),
                    fs |-> success.fs, log |-> <<"is_file">> \o success.log]
              ELSE [ret |-> Payload("append_failed", note_path, ""),
                    fs |-> success.fs, log |-> <<"is_file">> \o success.log]

(***************************************************************************)
(* The vault server as a state machine.                                    *)
(***************************************************************************)
\* what VAULT_PATH may be in the environment: missing, empty, a directory
VaultEnvs == {EnvAbsent, EnvValue(""), EnvValue("/v")}

\* the note paths a caller passes
NotePaths == {"x", "x.md", ".md", "X.MD", "x.txt", "dir.md", "d/y"}

\* the texts a caller passes
Texts == {"", "a", "a\n", "a\r", "\nb"}

\* The vault on disk at start: the root, a regular file that is no note, a
\* directory named like a note, and a note with an upper-case extension.
InitialFs ==
    (<<"v">> :> DirNode)
    @@ (<<"v", "x.txt">> :> FileNode("t"))
    @@ (<<"v", "dir.md">> :> DirNode)
    @@ (<<"v", "X.MD">> :> FileNode("u"))

NoCall == [op |-> "none", path |-> "", content |-> ""]

VaultInit ==
    /\ VAULT_PATH_VALUE \in VaultEnvs
    /\ VAULT_PATH = VaultGlobal(VAULT_PATH_VALUE)
    /\ fs = InitialFs
    /\ call = NoCall
    /\ ret = Payload("none", "", "")
    /\ fsLog = <<>>
    /\ fsBefore = InitialFs
    /\ nCalls = 0

\* one tool invocation: its outcome becomes the state
Invoke(op, path, content, out) ==
    /\ nCalls < MaxCalls
    /\ nCalls' = nCalls + 1
    /\ call' = [op |-> op, path |-> path, content |-> content]
    /\ fsBefore' = fs
    /\ fs' = out.fs
    /\ ret' = out.ret
    /\ fsLog' = out.log
    /\ UNCHANGED <<VAULT_PATH_VALUE, VAULT_PATH>>

GetObsidianNote ==
    \E p \in NotePaths :
        Invoke("get", p, "", get_obsidian_note(VAULT_PATH, fs, p))

CreateObsidianNote ==
    \E p \in NotePaths, c \in Texts :
        Invoke("create", p, c, create_obsidian_note(VAULT_PATH, fs, p, c))

AppendObsidianNote ==
    \E p \in NotePaths, t \in Texts :
        Invoke("append", p, t, append_obsidian_note(VAULT_PATH, fs, p, t))

VaultNext ==
    \/ GetObsidianNote /\ UNCHANGED <<githubVars, writerVars>>
    \/ CreateObsidianNote /\ UNCHANGED <<githubVars, writerVars>>
    \/ AppendObsidianNote /\ UNCHANGED <<githubVars, writerVars>>

(***************************************************************************)
(* Github_Server.py: JSON values as Python sees them.  A field of an       *)
(* object is missing, null or a string; a nested object is missing, null,  *)
(* empty or holds the one field the code reads from it.                    *)
(***************************************************************************)
Missing == [t |-> "missing", v |-> ""]

None == [t |-> "null", v |-> ""]

Str(s) == [t |-> "str", v |-> s]

\* dict.get(key): None for a missing key
Get(field) == IF field.t = "missing" THEN None ELSE field

\* dict.get(key, default)
GetDefault(field, default) == IF field.t = "missing" THEN default ELSE field

\* truth of None or a string
PyTruthy(x) == x.t = "str" /\ x.v # ""

MissingObj == [t |-> "missing", f |-> Missing]

NullObj == [t |-> "null", f |-> Missing]

EmptyObj == [t |-> "empty", f |-> Missing]

ObjWith(field) == [t |-> "dict", f |-> field]

\* pr.get(key, {}).get(inner) if pr.get(key) else None
GetNested(obj) == IF obj.t = "dict" THEN Get(obj.f) ELSE None

(***************************************************************************)
(* Github_Server.py: GitHubHelper.                                         *)
(***************************************************************************)
\* the length a pull-request body is cut to (line 68)
BodyLimit == 200

\* _make_github_request: one GET; raise_for_status turns 4xx/5xx into
\* HTTPError, a timeout or lost connection is another RequestException, and
\* both are raised again to the caller
_make_github_request(endpoint, response) ==
    [raised |-> IF response.status = "http_error" THEN "HTTPError"
                ELSE IF response.status = "connection_error" THEN "ConnectionError"
                ELSE "",
     response |-> response,
     log |-> <<"GET " \o endpoint>>]

\* the keys a JSON object holds
ObjectKeys(object) == {k \in DOMAIN object : object[k].t # "missing"}

\* response.json() and the loop over it: what iterating the body raises,
\* if anything.  Invalid JSON raises in json(); iterating an object yields
\* its keys, strings, which have no .get; an empty object yields nothing.
IterationError(body) ==
    IF body.type = "invalid" THEN "JSONDecodeError"
    ELSE IF body.type = "object" /\ ObjectKeys(body.object) # {} THEN "AttributeError"
    ELSE ""

\* the items the loop visits
IterationItems(body) == IF body.type = "list" THEN body.items ELSE <<>>

\* the expression of line 68
body_summary(pr) ==
    IF PyTruthy(Get(pr.body)) /\ Len(GetDefault(pr.body, Str("")).v) > BodyLimit
    THEN Str(SubSeq(GetDefault(pr.body, Str("")).v, 1, BodyLimit) \o "...")
    ELSE GetDefault(pr.body, Str(""))

\* the dictionary of lines 61-71
Summarize(pr) ==
    [number |-> Get(pr.number),
     title |-> Get(pr.title),
     url |-> Get(pr.html_url),
     merged_at |-> Get(pr.merged_at),
     merged_by |-> GetNested(pr.merged_by),
     author |-> GetNested(pr.user),
     body_summary |-> body_summary(pr),
     head_commit_sha |-> GetNested(pr.head),
     base_branch |-> GetNested(pr.base)]

\* the loop, had it kept going and answered with the last merged item
RECURSIVE LastMerged(_, _)
LastMerged(pull_requests, i) ==
    IF i > Len(pull_requests) THEN 0
    ELSE LET later == LastMerged(pull_requests, i + 1) IN
         IF later # 0 THEN later
         ELSE IF PyTruthy(Get(pull_requests[i].merged_at)) THEN i
         ELSE 0

\* the loop of lines 57-58: the position of the first item whose merged_at
\* is true, 0 when the loop runs out
RECURSIVE FirstMerged(_, _)
FirstMerged(pull_requests, i) ==
    IF i > Len(pull_requests) THEN 0
    ELSE IF PyTruthy(Get(pull_requests[i].merged_at)) THEN i
    ELSE FirstMerged(pull_requests, i + 1)

NoSummary == [number |-> None, title |-> None, url |-> None, merged_at |-> None,
              merged_by |-> None, author |-> None, body_summary |-> None,
              head_commit_sha |-> None, base_branch |-> None]

\* get_last_merged_pr_details: a summary, None, or {"error_message"} for
\* any exception at all
get_last_merged_pr_details(response) ==
    LET req == _make_github_request("pulls", response)
        body == response.body
    IN  IF req.raised # "" \/ IterationError(body) # ""
        THEN [t |-> "error_message", data |-> NoSummary, log |-> req.log]
        ELSE LET k == FirstMerged(IterationItems(body), 1) IN
             IF k = 0
             THEN [t |-> "none", data |-> NoSummary, log |-> req.log]
             ELSE [t |-> "summary", data |-> Summarize(IterationItems(body)[k]),
                   log |-> req.log]

\* one element of the list get_dir_content builds (lines 87-95)
DirEntry(item) ==
    [name |-> Get(item.name), path |-> Get(item.path), type |-> Get(item.type),
     size |-> Get(item.size), sha |-> Get(item.sha), html_url |-> Get(item.html_url),
     download_url |-> Get(item.download_url)]

\* get_dir_content: only HTTPError is caught; anything else leaves the
\* method as an exception
get_dir_content(response) ==
    LET req == _make_github_request("contents", response)
        body == response.body
    IN  IF req.raised = "HTTPError"
        THEN [t |-> "error_message", raised |-> "", data |-> <<>>, log |-> req.log]
        ELSE IF req.raised # ""
        THEN [t |-> "raise", raised |-> req.raised, data |-> <<>>, log |-> req.log]
        ELSE IF IterationError(body) # ""
        THEN [t |-> "raise", raised |-> IterationError(body), data |-> <<>>, log |-> req.log]
        ELSE [t |-> "list", raised |-> "",
              data |-> [i \in 1..Len(IterationItems(body)) |-> DirEntry(IterationItems(body)[i])],
              log |-> req.log]

\* base64.b64decode(content).decode("utf-8") on the payloads the model
\* uses: "aGk=" is "hi"; "aGk" lacks padding (binascii.Error); "/w==" is
\* the byte 0xff, which is not UTF-8 (UnicodeDecodeError).
B64DecodeUtf8(content_b64) ==
    CASE content_b64 = "aGk=" -> [ok |-> TRUE, text |-> "hi"]
      [] content_b64 = "" -> [ok |-> TRUE, text |-> ""]
      [] OTHER -> [ok |-> FALSE, text |-> ""]

\* the raw fetch, had it not fallen back to "utf-8"
RawFetchNoDefault(raw) ==
    IF raw.status = "ok"
    THEN [ok |-> TRUE, text |-> raw.text, encoding |-> raw.encoding]
    ELSE [ok |-> FALSE, text |-> "", encoding |-> None]

\* requests.get(download_url, timeout=30): no raise_for_status, so only a
\* transport failure raises
RawFetch(raw) ==
    IF raw.status = "ok"
    THEN [ok |-> TRUE, text |-> raw.text,
          encoding |-> IF PyTruthy(raw.encoding) THEN raw.encoding ELSE Str("utf-8")]
    ELSE [ok |-> FALSE, text |-> "", encoding |-> None]

NoFile == [name |-> None, path |-> None, sha |-> None, size |-> None,
           encoding |-> None, content |-> "", html_url |-> None, download_url |-> None]

\* the dictionary of lines 126-135
FileRecord(file_data, encoding, decoded_content) ==
    [name |-> Get(file_data.name), path |-> Get(file_data.path),
     sha |-> Get(file_data.sha), size |-> Get(file_data.size),
     encoding |-> encoding, content |-> decoded_content,
     html_url |-> Get(file_data.html_url),
     download_url |-> Get(file_data.download_url)]

\* get_file_content: the decoding policy of lines 107-124
get_file_content(response, raw) ==
    LET req == _make_github_request("contents", response)
        body == response.body
        file_data == body.object
        content_b64 == Get(file_data.content)
        encoding == Get(file_data.encoding)
    IN  IF req.raised = "HTTPError"
        THEN [t |-> "error_message", raised |-> "", data |-> NoFile, log |-> req.log]
        ELSE IF req.raised # ""
        THEN [t |-> "raise", raised |-> req.raised, data |-> NoFile, log |-> req.log]
        ELSE IF body.type = "invalid"
        THEN [t |-> "raise", raised |-> "JSONDecodeError", data |-> NoFile, log |-> req.log]
        ELSE IF body.type = "list"
        THEN [t |-> "raise", raised |-> "AttributeError", data |-> NoFile, log |-> req.log]
        ELSE IF PyTruthy(content_b64) /\ encoding = Str("base64")
        THEN LET dec == B64DecodeUtf8(content_b64.v) IN
             IF dec.ok
             THEN [t |-> "file", raised |-> "",
                   data |-> FileRecord(file_data, encoding, dec.text), log |-> req.log]
             ELSE [t |-> "file", raised |-> "",
                   data |-> FileRecord(file_data, Str("error_decoding_base64"),
                                       "Error: Could not decode content."),
                   log |-> req.log]
        ELSE IF PyTruthy(Get(file_data.download_url))
        THEN LET raw_response == RawFetch(raw) IN
             IF raw_response.ok
             THEN [t |-> "file", raised |-> "",
                   data |-> FileRecord(file_data, raw_response.encoding, raw_response.text),
                   log |-> req.log \o <<"GET raw">>]
             ELSE [t |-> "file", raised |-> "",
                   data |-> FileRecord(file_data, Str("error_downloading"),
                                       "Error: Could not download content."),
                   log |-> req.log \o <<"GET raw">>]
        ELSE [t |-> "file", raised |-> "",
              data |-> FileRecord(file_data, encoding, ""), log |-> req.log]

(***************************************************************************)
(* Github_Server.py: the tools.                                            *)
(***************************************************************************)
GhPayload(shape, data) == [kind |-> "return", shape |-> shape, data |-> data]

GhRaised(exc) == [kind |-> "raise", shape |-> exc, data |-> <<>>]

\* the token check, had it been `if github_token is None:`
TokenIsNone(github_token) == ~github_token.set

\* `if not github_token:` on os.getenv("GITHUB_TOKEN")
TokenMissing(github_token) == ~Truthy(github_token)

get_github_last_merged_pr(github_token, response) ==
    IF TokenMissing(github_token)
    THEN [ret |-> GhPayload("ConfigurationError", <<>>), log |-> <<>>]
    ELSE LET pr_data == get_last_merged_pr_details(response) IN
         IF pr_data.t = "none"
         THEN [ret |-> GhPayload("message", <<>>), log |-> pr_data.log]
         ELSE IF pr_data.t = "error_message"
         THEN [ret |-> GhPayload("error_message", <<>>), log |-> pr_data.log]
         ELSE [ret |-> GhPayload("summary", pr_data.data), log |-> pr_data.log]

get_repo_contents(github_token, response) ==
    IF TokenMissing(github_token)
    THEN [ret |-> GhPayload("ConfigurationError", <<>>), log |-> <<>>]
    ELSE LET contents == get_dir_content(response) IN
         IF contents.t = "raise"
         THEN [ret |-> GhRaised(contents.raised), log |-> contents.log]
         ELSE IF contents.t = "error_message"
         THEN [ret |-> GhPayload("error_message", <<>>), log |-> contents.log]
         ELSE [ret |-> GhPayload("list", contents.data), log |-> contents.log]

get_file_contents(github_token, response, raw) ==
    IF TokenMissing(github_token)
    THEN [ret |-> GhPayload("ConfigurationError", <<>>), log |-> <<>>]
    ELSE LET file_content == get_file_content(response, raw) IN
         IF file_content.t = "raise"
         THEN [ret |-> GhRaised(file_content.raised), log |-> file_content.log]
         ELSE IF file_content.t = "error_message"
         THEN [ret |-> GhPayload("error_message", <<>>), log |-> file_content.log]
         ELSE [ret |-> GhPayload("file", file_content.data), log |-> file_content.log]

(***************************************************************************)
(* The repository server as a state machine: what the environment holds    *)
(* and what the remote side may answer.                                    *)
(***************************************************************************)
\* GITHUB_TOKEN in the environment: missing, empty, a token
TokenEnvs == {EnvAbsent, EnvValue(""), EnvValue("ghp_t")}

\* the first n characters of "abcdefghij" repeated
RECURSIVE Cycle(_)
Cycle(n) ==
    IF n <= Len("abcdefghij") THEN SubSeq("abcdefghij", 1, n)
    ELSE "abcdefghij" \o Cycle(n - Len("abcdefghij"))

SeqsUpTo(S, n) == UNION {[1..k -> S] : k \in 0..n}

PullRequest(number, merged_at, merged_by, user, body, head) ==
    [number |-> Str(number), title |-> Str("title " \o number),
     html_url |-> Str("https://github.com/o/r/pull/" \o number),
     merged_at |-> merged_at, merged_by |-> merged_by, user |-> user,
     body |-> body, head |-> head, base |-> ObjWith(Str("main"))]

\* closed pull requests as the API lists them: never merged (merged_at
\* null), and merged ones with every kind of body, null included (a pull
\* request without a description)
PullRequests ==
    {PullRequest("1", None, NullObj, ObjWith(Str("alice")), Str("closed"),
                 ObjWith(Str("sha1"))),
     PullRequest("2", Str("2024-01-02T00:00:00Z"), ObjWith(Str("bob")),
                 ObjWith(Str("alice")), Str("fix"), ObjWith(Str("sha2"))),
     PullRequest("3", Str("2024-01-03T00:00:00Z"), NullObj, NullObj, None,
                 ObjWith(Str("sha3"))),
     PullRequest("4", Str("2024-01-04T00:00:00Z"), ObjWith(Str("bob")),
                 MissingObj, Missing, EmptyObj),
     PullRequest("5", Str("2024-01-05T00:00:00Z"), ObjWith(Missing),
                 ObjWith(Str("carol")), Str(""), ObjWith(Str("sha5")))}
    \cup {PullRequest("6", Str("2024-01-06T00:00:00Z"), ObjWith(Str("bob")),
                      ObjWith(Str("alice")), Str(Cycle(n)), ObjWith(Str("sha6")))
          : n \in BodyLimit..(BodyLimit + MaxOver)}

Entry(name, type, download_url) ==
    [name |-> Str(name), path |-> Str(name), type |-> Str(type), size |-> Str("0"),
     sha |-> Str("sha " \o name), html_url |-> Str("https://github.com/o/r/" \o name),
     download_url |-> download_url]

Entries == {Entry("README.md", "file", Str("https://raw/README.md")),
            Entry("src", "dir", None)}

FileObject(content, encoding, download_url) ==
    [name |-> Str("f"), path |-> Str("f"), sha |-> Str("sha f"), size |-> Str("2"),
     type |-> Str("file"), content |-> content, encoding |-> encoding,
     html_url |-> Str("https://github.com/o/r/f"), download_url |-> download_url]

\* file metadata: the inline payload missing, null, empty (an empty file),
\* valid, badly padded, or not UTF-8; the encoding tag missing, "base64" or
\* "none" (what the API sends for a large file)
FileObjects ==
    {FileObject(c, e, d) :
        c \in {Missing, None, Str(""), Str("aGk="), Str("aGk"), Str("/w==")},
        e \in {Missing, Str("base64"), Str("none")},
        d \in {None, Str(""), Str("https://raw/f")}}

NoObject == [message |-> Missing]

ListBody(items) == [type |-> "list", items |-> items, object |-> NoObject]

ObjectBody(object) == [type |-> "object", items |-> <<>>, object |-> object]

InvalidBody == [type |-> "invalid", items |-> <<>>, object |-> NoObject]

Ok(body) == [status |-> "ok", body |-> body]

\* answers that are no 2xx with JSON: 4xx/5xx, no answer at all, and a body
\* that is not JSON
FailedResponses ==
    {[status |-> "http_error", body |-> InvalidBody],
     [status |-> "connection_error", body |-> InvalidBody],
     Ok(InvalidBody)}

PullsResponses ==
    FailedResponses
    \cup {Ok(ObjectBody(NoObject)), Ok(ObjectBody([message |-> Str("moved")]))}
    \cup {Ok(ListBody(prs)) : prs \in SeqsUpTo(PullRequests, MaxPRs)}

ContentsResponses ==
    FailedResponses
    \cup {Ok(ListBody(items)) : items \in SeqsUpTo(Entries, MaxEntries)}
    \cup {Ok(ObjectBody(o)) : o \in FileObjects}

RawResponses ==
    {[status |-> "error", text |-> "", encoding |-> None],
     [status |-> "ok", text |-> "raw text", encoding |-> None],
     [status |-> "ok", text |-> "raw text", encoding |-> Str("ISO-8859-1")]}

GhPaths == {"", "f"}

NoResponse == [status |-> "none", body |-> InvalidBody]

NoRaw == [status |-> "none", text |-> "", encoding |-> None]

GithubInit ==
    /\ GITHUB_TOKEN \in TokenEnvs
    /\ ghCall = [op |-> "none", path |-> ""]
    /\ apiResponse = NoResponse
    /\ rawResponse = NoRaw
    /\ netLog = <<>>
    /\ ghRet = GhPayload("none", <<>>)

\* one tool invocation, taken when the server is idle: its outcome becomes
\* the state
GhInvoke(op, path, response, raw, out) ==
    /\ ghCall.op = "none"
    /\ ghCall' = [op |-> op, path |-> path]
    /\ apiResponse' = response
    /\ rawResponse' = raw
    /\ netLog' = out.log
    /\ ghRet' = out.ret
    /\ UNCHANGED GITHUB_TOKEN

GetGithubLastMergedPr ==
    \E response \in PullsResponses :
        GhInvoke("get_github_last_merged_pr", "", response, NoRaw,
                 get_github_last_merged_pr(GITHUB_TOKEN, response))

GetRepoContents ==
    \E path \in GhPaths, response \in ContentsResponses :
        GhInvoke("get_repo_contents", path, response, NoRaw,
                 get_repo_contents(GITHUB_TOKEN, response))

GetFileContents ==
    \E path \in GhPaths, response \in ContentsResponses, raw \in RawResponses :
        GhInvoke("get_file_contents", path, response, raw,
                 get_file_contents(GITHUB_TOKEN, response, raw))

\* the outcome goes back to the caller and the server is idle again; the
\* tools keep nothing between invocations
GhReply ==
    /\ ghCall.op # "none"
    /\ ghCall' = [op |-> "none", path |-> ""]
    /\ apiResponse' = NoResponse
    /\ rawResponse' = NoRaw
    /\ netLog' = <<>>
    /\ ghRet' = GhPayload("none", <<>>)
    /\ UNCHANGED GITHUB_TOKEN

GithubNext ==
    \/ GetGithubLastMergedPr /\ UNCHANGED <<vaultVars, writerVars>>
    \/ GetRepoContents /\ UNCHANGED <<vaultVars, writerVars>>
    \/ GetFileContents /\ UNCHANGED <<vaultVars, writerVars>>
    \/ GhReply /\ UNCHANGED <<vaultVars, writerVars>>

(***************************************************************************)
(* Concurrent appends.  Every client starts a vault server of its own, so  *)
(* several processes serve one vault and their append_obsidian_note        *)
(* invocations overlap; nothing in the code excludes one from another.     *)
(* An invocation is a run of filesystem calls, and another process may act *)
(* between any two of them: the tool's is_file check, append_note's check  *)
(* and open("a"), its read_text, and the write(2) calls that carry the     *)
(* buffered text to the file when the with block ends.                     *)
(***************************************************************************)
Writers == 1..MaxWriters

\* the note paths the concurrent callers pass: the note, a regular file
\* that is no note, and a path that does not exist
AppendPaths == {"x.md", "x.txt", "y.md"}

\* the texts the concurrent callers pass
AppendTexts == {"", "a", "b\n"}

\* what the note holds before the first append
NoteTexts == {"", "s"}

\* The vault on disk with the note in it
VaultWithNote(s) == Put(InitialFs, <<"v", "x.md">>, FileNode(s))

\* write(2) on a descriptor opened without O_APPEND: the bytes replace what
\* the file holds from the descriptor's offset on
OffsetWrite(stored, pos, bytes) ==
    IF pos >= Len(stored) THEN stored \o bytes
    ELSE SubSeq(stored, 1, pos) \o bytes
         \o (IF pos + Len(bytes) >= Len(stored) THEN ""
             ELSE SubSeq(stored, pos + Len(bytes) + 1, Len(stored)))

\* write(2) on the descriptor of open("a"), which is in O_APPEND mode: the
\* bytes go to the end of the file as it is at that moment, wherever the
\* descriptor's offset was
AppendModeWrite(stored, pos, bytes) == stored \o bytes

\* What the f.write calls of lines 33-37 leave in the file object's buffer:
\* the separating newline, when the text just read is not empty and does
\* not end in one, and the text to append; an empty string adds nothing.
BufferedWrites(current_content, content_to_append, ensure_newline) ==
    (IF ensure_newline /\ current_content # "" /\ ~EndsWith(current_content, "\n")
     THEN <<WriteTranslate("\n")>> ELSE <<>>)
    \o (IF content_to_append = "" THEN <<>>
        ELSE <<WriteTranslate(content_to_append)>>)

RECURSIVE Concat(_)
\* b"".join of the buffered pieces
Concat(pieces) ==
    IF pieces = <<>> THEN "" ELSE Head(pieces) \o Concat(Tail(pieces))

\* a caller with no invocation in flight
IdleWriter ==
    [pc |-> "idle", note_path |-> "", content_to_append |-> "", start |-> "",
     pos |-> 0, pending |-> <<>>, ret |-> Payload("none", "", "")]

\* full_path_obj of the invocation a caller has in flight
FullPath(w) == get_path(VAULT_PATH, writers[w].note_path).path

\* the invocation has ended with this outcome
Finished(inv, outcome) == [inv EXCEPT !.pc = "done", !.pending = <<>>, !.ret = outcome]

WritersInit ==
    /\ writers = [w \in Writers |-> IdleWriter]
    /\ nAppends = 0

\* append_obsidian_note up to its call of append_note (lines 153-158): the
\* read of VAULT_PATH, get_path, and the is_file check.  start keeps what
\* the file held when the invocation began.
AppendCall(w) ==
    /\ nAppends < MaxAppends
    /\ writers[w].pc \in {"idle", "done"}
    /\ \E note_path \in AppendPaths, content_to_append \in AppendTexts :
        LET inv == [IdleWriter EXCEPT !.note_path = note_path,
                                      !.content_to_append = content_to_append]
            full_path_obj == get_path(VAULT_PATH, note_path)
        IN  writers' = [writers EXCEPT ![w] =
                IF ~VAULT_PATH.bound
                THEN Finished(inv, Raised("NameError"))
                ELSE IF NotVaultPath(VAULT_PATH)
                THEN Finished(inv, Payload("not_configured", "", ""))
                ELSE IF full_path_obj.none \/ ~IsFile(fs, full_path_obj.path)
                THEN Finished(inv, Payload("not_found", note_path, ""))
                ELSE [inv EXCEPT !.pc = "called",
                                 !.start = fs[full_path_obj.path].data]]
    /\ nAppends' = nAppends + 1
    /\ UNCHANGED fs

\* append_note lines 31-32: the check of the path and open("a"), which puts
\* the descriptor's offset at the end of the file; a path that is no *.md
\* regular file makes append_note return False (lines 39, 161-162)
AppendOpen(w) ==
    /\ writers[w].pc = "called"
    /\ LET full_path == FullPath(w) IN
       writers' = [writers EXCEPT ![w] =
           IF IsFile(fs, full_path) /\ Lower(Suffix(full_path)) = ".md"
           THEN [@ EXCEPT !.pc = "open", !.pos = Len(fs[full_path].data)]
           ELSE Finished(@, Payload("append_failed", @.note_path, ""))]
    /\ UNCHANGED <<fs, nAppends>>

\* append_note lines 33-37: read_text of the file as it is now, and the two
\* f.write calls, which only fill the buffer; with nothing buffered the
\* with block ends without a write and the tool reports success
AppendReadText(w) ==
    /\ writers[w].pc = "open"
    /\ LET full_path == FullPath(w) IN
       writers' = [writers EXCEPT ![w] =
           IF ~IsFile(fs, full_path)
           THEN Finished(@, Payload("append_failed", @.note_path, ""))
           ELSE LET current_content == ReadText(fs, full_path)
                    pending == BufferedWrites(current_content,
                                              @.content_to_append, TRUE)
                IN  IF pending = <<>>
                    THEN Finished(@, Payload("appended", @.note_path, ""))
                    ELSE [@ EXCEPT !.pc = "buffered", !.pending = pending]]
    /\ UNCHANGED <<fs, nAppends>>

\* The end of the with block (line 32): the buffer goes to the file.  The
\* newline and the text leave in one write(2) when together they fit the
\* file object's buffer, and in two, the newline first, when they do not;
\* the texts here stand for texts of either size, so both are taken.  After
\* the last write the tool returns its success payload (lines 38, 160-161).
AppendFlush(w) ==
    /\ writers[w].pc = "buffered"
    /\ \E k \in 1..Len(writers[w].pending) :
        LET full_path == FullPath(w)
            bytes == Concat(SubSeq(writers[w].pending, 1, k))
            rest == SubSeq(writers[w].pending, k + 1, Len(writers[w].pending))
            stored == AppendModeWrite(fs[full_path].data, writers[w].pos, bytes)
        IN  /\ fs' = Put(fs, full_path, FileNode(stored))
            /\ writers' = [writers EXCEPT ![w] =
                   IF rest = <<>>
                   THEN [Finished(@, Payload("appended", @.note_path, ""))
                            EXCEPT !.pos = Len(stored)]
                   ELSE [@ EXCEPT !.pos = Len(stored), !.pending = rest]]
    /\ UNCHANGED nAppends

\* the variables the concurrent callers leave alone
servedVars == <<VAULT_PATH_VALUE, VAULT_PATH, call, ret, fsLog, fsBefore, nCalls>>

WritersNext ==
    \/ \E w \in Writers : AppendCall(w) /\ UNCHANGED <<servedVars, githubVars>>
    \/ \E w \in Writers : AppendOpen(w) /\ UNCHANGED <<servedVars, githubVars>>
    \/ \E w \in Writers : AppendReadText(w) /\ UNCHANGED <<servedVars, githubVars>>
    \/ \E w \in Writers : AppendFlush(w) /\ UNCHANGED <<servedVars, githubVars>>

(***************************************************************************)
(* Specifications.  The two servers are separate processes: VaultSpec runs *)
(* the vault server alone and GithubSpec the repository server alone, the  *)
(* other one's variables staying as they start; Spec runs both.            *)
(* WritersSpec runs several vault servers that append at the same time.    *)
(***************************************************************************)
Init == VaultInit /\ GithubInit /\ WritersInit

Next == VaultNext \/ GithubNext

Spec == Init /\ [][Next]_vars

VaultServerInit ==
    VaultInit /\ GithubInit /\ GITHUB_TOKEN = EnvAbsent /\ WritersInit

VaultSpec == VaultServerInit /\ [][VaultNext]_vars

GithubServerInit ==
    GithubInit /\ VaultInit /\ VAULT_PATH_VALUE = EnvAbsent /\ WritersInit

GithubSpec == GithubServerInit /\ [][GithubNext]_vars

\* several vault servers on one vault that holds the note, appending
WritersServerInit ==
    /\ VAULT_PATH_VALUE \in VaultEnvs
    /\ VAULT_PATH = VaultGlobal(VAULT_PATH_VALUE)
    /\ \E s \in NoteTexts : fs = VaultWithNote(s)
    /\ fsBefore = fs
    /\ call = NoCall
    /\ ret = Payload("none", "", "")
    /\ fsLog = <<>>
    /\ nCalls = 0
    /\ GithubInit
    /\ GITHUB_TOKEN = EnvAbsent
    /\ WritersInit

WritersSpec == WritersServerInit /\ [][WritersNext]_vars

(***************************************************************************)
(* Vocabulary of the properties.                                           *)
(***************************************************************************)
\* the vault tool that ran last ran with a vault root configured
VaultConfigured == VAULT_PATH.bound

\* the resolved path the last vault invocation addressed
Target == Join(VAULT_PATH.parts, call.path)

\* the path a note created at p is read back from
ReadBackPath(p) == IF EndsWith(p, ".md") THEN p ELSE p \o ".md"

\* the last repository invocation got an answer with a JSON body of this type
Answered(op, type) ==
    /\ ghCall.op = op
    /\ Truthy(GITHUB_TOKEN)
    /\ apiResponse.status = "ok"
    /\ apiResponse.body.type = type

\* the positions of the items whose merge timestamp is not null
MergedPositions(prs) == {i \in 1..Len(prs) : prs[i].merged_at.t = "str"}

Least(S) == CHOOSE i \in S : \A j \in S : i <= j

\* the login, sha or ref inside a nested object, null when there is none
Inner(obj) == IF obj.t = "dict" /\ obj.f.t = "str" THEN obj.f ELSE None

\* the text of a string value, empty for null
TextOf(x) == IF x.t = "str" THEN x.v ELSE ""

\* s is the beginning of t
IsPrefix(s, t) == Len(s) <= Len(t) /\ SubSeq(t, 1, Len(s)) = s

\* t occurs in s as a run of consecutive characters
Occurs(t, s) ==
    \E i \in 0..(Len(s) - Len(t)) : SubSeq(s, i + 1, i + Len(t)) = t

\* what a string holds after its first n characters
After(s, n) == IF n >= Len(s) THEN "" ELSE SubSeq(s, n + 1, Len(s))

\* a step leaves every regular file a regular file that begins with what it
\* held
FilesOnlyGrow ==
    \A p \in DOMAIN fs :
        IsFile(fs, p) => IsFile(fs', p) /\ IsPrefix(fs[p].data, fs'[p].data)

\* the invocation of caller w has returned the success payload
Appended(w) == writers[w].pc = "done" /\ writers[w].ret.shape = "appended"

(***************************************************************************)
(* Properties, by claim.                                                   *)
(***************************************************************************)

\* C1: with VAULT_PATH absent from the environment, each vault tool returns
\* the configuration-error payload, does not raise, and touches no file.
C1_UnconfiguredVaultReturnsConfigError ==
    (call.op # "none" /\ VAULT_PATH_VALUE = EnvAbsent) =>
        /\ ret.kind = "return"
        /\ ret.shape = "not_configured"
        /\ fsLog = <<>>
        /\ fs = fsBefore

\* C2: no repository tool lets an exception out: a failed request (4xx/5xx,
\* no connection, timeout) or a body of the wrong kind ends in a returned
\* error payload.
C2_NoExceptionPropagates ==
    (ghCall.op # "none" /\ Truthy(GITHUB_TOKEN)) =>
        /\ ghRet.kind = "return"
        /\ apiResponse.status \in {"http_error", "connection_error"}
               => ghRet.shape \in {"error_message", "NotFound", "ToolExecutionError"}

\* C3: from a list of closed pull requests, get_github_last_merged_pr
\* returns the summary of the first one, in the order given, whose merge
\* timestamp is not null, every field taken from that one; with none merged
\* it returns the "none found" message; either way it made one request.
C3_FirstMergedSummary ==
    Answered("get_github_last_merged_pr", "list") =>
        LET prs == apiResponse.body.items
            merged == MergedPositions(prs)
        IN  /\ netLog = <<"GET pulls">>
            /\ ghRet.kind = "return"
            /\ IF merged = {}
               THEN ghRet.shape = "message"
               ELSE LET pr == prs[Least(merged)]
                        sum == ghRet.data
                        body == TextOf(pr.body)
                        cut == TextOf(sum.body_summary)
                    IN  /\ ghRet.shape = "summary"
                        /\ sum.number = pr.number
                        /\ sum.title = pr.title
                        /\ sum.url = pr.html_url
                        /\ sum.merged_at = pr.merged_at
                        /\ sum.merged_by = Inner(pr.merged_by)
                        /\ sum.author = Inner(pr.user)
                        /\ sum.head_commit_sha = Inner(pr.head)
                        /\ sum.base_branch = Inner(pr.base)
                        /\ \/ cut = body
                           \/ /\ Len(cut) >= Len("...")
                              /\ Len(cut) - Len("...") < Len(body)
                              /\ cut = SubSeq(body, 1, Len(cut) - Len("...")) \o "..."

\* C3's case: the third item is the first merged one, and it is summarised
C3_Witness ==
    /\ Answered("get_github_last_merged_pr", "list")
    /\ Len(apiResponse.body.items) >= 3
    /\ Least(MergedPositions(apiResponse.body.items) \cup {MaxPRs + 1}) = 3
    /\ ghRet.shape = "summary"
    /\ ghRet.data.number = apiResponse.body.items[3].number

\* C4: with a vault root configured, a note created at p with content c
\* reads back, at p with ".md" added unless p ends in it, as exactly c.
C4_CreateThenReadRoundTrip ==
    (call.op = "create" /\ VaultConfigured
        /\ ret.shape \in {"created", "relative_path_failed"}) =>
        LET q == get_path(VAULT_PATH, ReadBackPath(call.path)).path
            note == read_note(fs, q)
        IN  /\ ~note.none
            /\ note.content = call.content

C6_FailedAppendChangesNothing ==
    (call.op = "append"
        /\ ~(VaultConfigured /\ IsFile(fsBefore, Target) /\ Lower(Suffix(Target)) = ".md")) =>
        /\ fs = fsBefore
        /\ ~("write" \in {fsLog[i] : i \in DOMAIN fsLog})
        /\ VaultConfigured => IsErrorPayload(ret)

\* C6's case: an append to a path that does not exist has failed
C6_Witness ==
    /\ call.op = "append"
    /\ VaultConfigured
    /\ ~Exists(fsBefore, Target)
    /\ IsErrorPayload(ret)
    /\ ~Exists(fs, Target)

\* C7: get_obsidian_note returns {path, content} exactly when the resolved
\* path has the extension ".md" and is an existing regular file, and the
\* "not found" error payload for every other resolved path.
C7_ReadOnlyMarkdownFiles ==
    (call.op = "get" /\ VaultConfigured) =>
        IF Suffix(Target) = ".md" /\ Target \in DOMAIN fs /\ fs[Target].kind = "file"
        THEN ret = Payload("note", call.path, UniversalNewlines(fs[Target].data))
        ELSE ret = Payload("not_found", call.path, "")

\* C7's case: an existing regular file that is not named *.md is not found
C7_Witness ==
    /\ call.op = "get"
    /\ VaultConfigured
    /\ IsFile(fs, Target)
    /\ Suffix(Target) # ".md"
    /\ ret.shape = "not_found"

\* C8 as first stated: with the token absent every repository tool returns
\* the configuration error and issues no request; with the token present
\* the configuration error is never returned.
C8_TokenCheck ==
    ghCall.op # "none" =>
        /\ ~GITHUB_TOKEN.set => (ghRet = GhPayload("ConfigurationError", <<>>) /\ netLog = <<>>)
        /\ GITHUB_TOKEN.set => ghRet.shape # "ConfigurationError"

\* C8, amended: with the token absent or empty every repository tool
\* returns the configuration error and issues no request; with a token that
\* is present and not empty the configuration error is never returned.
C8_TokenCheckAmended ==
    ghCall.op # "none" =>
        /\ (~GITHUB_TOKEN.set \/ GITHUB_TOKEN.value = "")
               => (ghRet = GhPayload("ConfigurationError", <<>>) /\ netLog = <<>>)
        /\ (GITHUB_TOKEN.set /\ GITHUB_TOKEN.value # "")
               => ghRet.shape # "ConfigurationError"

\* C8's case: a tool was called with no token in the environment
C8_Witness ==
    /\ ghCall.op = "get_file_contents"
    /\ ~GITHUB_TOKEN.set
    /\ ghRet.shape = "ConfigurationError"
    /\ apiResponse.status = "ok"

\* what C9 requires of a File Content Record once it is settled whether the
\* inline payload counts (case a) and whether the raw-content URL counts
\* (case b)
FileContentPolicy(inline, hasUrl) ==
    LET o == apiResponse.body.object
        rec == ghRet.data
        dec == B64DecodeUtf8(TextOf(o.content))
    IN  /\ ghRet.kind = "return"
        /\ ghRet.shape = "file"
        /\ IF inline
           THEN /\ netLog = <<"GET contents">>
                /\ IF dec.ok
                   THEN rec.encoding = Str("base64") /\ rec.content = dec.text
                   ELSE /\ rec.encoding = Str("error_decoding_base64")
                        /\ rec.content = "Error: Could not decode content."
           ELSE IF hasUrl
           THEN /\ netLog = <<"GET contents", "GET raw">>
                /\ IF rawResponse.status = "ok"
                   THEN /\ rec.content = rawResponse.text
                        /\ rec.encoding = IF rawResponse.encoding.t = "str"
                                          THEN rawResponse.encoding ELSE Str("utf-8")
                   ELSE /\ rec.encoding = Str("error_downloading")
                        /\ rec.content = "Error: Could not download content."
           ELSE /\ netLog = <<"GET contents">>
                /\ rec.content = ""
                /\ rec.encoding = (IF o.encoding.t = "str" THEN o.encoding ELSE None)

\* C9 as first stated: get_file_contents always returns a File Content
\* Record, by (a) when the inline payload and the encoding tag are both
\* present, else by (b) when a raw-content URL is present, else by (c).
C9_FileContentPolicy ==
    Answered("get_file_contents", "object") =>
        LET o == apiResponse.body.object
        IN  FileContentPolicy(o.content.t = "str" /\ o.encoding.t = "str",
                              o.download_url.t = "str" /\ o.download_url.v # "")

\* C9, amended: get_file_contents always returns a File Content Record, by
\* (a) when the inline payload is not empty and the encoding tag is
\* "base64", else by (b) when the raw-content URL is not empty, else by (c).
C9_FileContentPolicyAmended ==
    Answered("get_file_contents", "object") =>
        LET o == apiResponse.body.object
        IN  FileContentPolicy(
                o.content.t = "str" /\ o.content.v # "" /\ o.encoding = Str("base64"),
                o.download_url.t = "str" /\ o.download_url.v # "")

\* C9's case: an inline payload that does not decode gave a record with the
\* error marker, and no second request
C9_Witness ==
    /\ Answered("get_file_contents", "object")
    /\ apiResponse.body.object.encoding = Str("base64")
    /\ apiResponse.body.object.download_url.t = "str"
    /\ ghRet.shape = "file"
    /\ ghRet.data.encoding = Str("error_decoding_base64")
    /\ netLog = <<"GET contents">>

\* C10: the body field of a summary is the first 200 characters of the body
\* and "..." when the body is longer than 200, the body itself when it is
\* not, and the empty string when the body is absent or null; it is never
\* null and never longer than 203.
C10_BodySummary ==
    (Answered("get_github_last_merged_pr", "list") /\ ghRet.shape = "summary") =>
        LET prs == apiResponse.body.items
            b == prs[Least(MergedPositions(prs))].body
            got == ghRet.data.body_summary
        IN  /\ got.t = "str"
            /\ Len(got.v) <= BodyLimit + Len("...")
            /\ got.v = IF b.t # "str" THEN ""
                       ELSE IF Len(b.v) > BodyLimit
                       THEN SubSeq(b.v, 1, BodyLimit) \o "..."
                       ELSE b.v

\* C11: however append invocations on the same existing note interleave,
\* no step of one removes, reorders or rewrites what a file holds; what the
\* note held when an invocation began is the beginning of what it holds at
\* every later moment; and the text of every invocation that returned
\* success occurs, whole, in what was added since that invocation began.
C11_AppendsOnlyExtend ==
    /\ [][FilesOnlyGrow]_vars
    /\ [](\A w \in Writers :
            (writers[w].pc \notin {"idle"} /\ IsFile(fs, FullPath(w))) =>
                LET now == fs[FullPath(w)].data IN
                /\ IsPrefix(writers[w].start, now)
                /\ Appended(w) =>
                       Occurs(writers[w].content_to_append,
                              After(now, Len(writers[w].start))))

\* C11's case: two callers began an append to the note before either had
\* written, and both returned success, the second after the first's text
\* and its own separating newline had reached the file
C11_Witness ==
    \E w1, w2 \in Writers :
        /\ w1 # w2
        /\ Appended(w1) /\ Appended(w2)
        /\ writers[w1].note_path = "x.md" /\ writers[w2].note_path = "x.md"
        /\ writers[w1].start = "s" /\ writers[w2].start = "s"
        /\ writers[w1].content_to_append = "a"
        /\ writers[w2].content_to_append = "b\n"
        /\ fs[<<"v", "x.md">>].data = "s\na\nb\n"

====
